---- MODULE Spec2Model ----
(***************************************************************************)
(* Blockchain reconciliation layer of the AgriTrack backend.               *)
(*                                                                         *)
(* A domain write commits a record with blockchain_status "pending" and    *)
(* queues a background task (FastAPI BackgroundTasks).  The task opens its *)
(* own SQLAlchemy session, re-reads the record, calls the contract helper, *)
(* which calls the blockchain service, and writes the outcome to the       *)
(* record's four sync columns before committing.                           *)
(*                                                                         *)
(* Tasks are coroutines on one event loop: a task runs atomically between  *)
(* two awaits.  The awaits are the gateway connect and the contract call   *)
(* inside FabricBlockchainService, so a task is modelled by the steps      *)
(* TaskStart, ConnectReturn and SubmitReturn.                              *)
(***************************************************************************)
EXTENDS Integers, Sequences, FiniteSets, TLC

\* ---------------------------------------------------------------- bounds
NumRecords == 2
MaxTasks == 2

RecIds == 1..NumRecords
\* an id that no record of the local store ever has
MissingId == 0
AllIds == 0..NumRecords
TaskIds == 1..MaxTasks

\* ------------------------------------------------------------ vocabulary
Kinds == {"batch", "event", "transport", "processing", "cert", "regulatory"}
Roles == {"farmer", "regulator", "supplier", "admin"}
Requests == [role : Roles, parent : BOOLEAN, valid : BOOLEAN, own : BOOLEAN]

NullTx == <<"null", 0>>
NullErr == "null"
NullAt == 0

\* str(e) of the exceptions that can reach the except clause of a task
TypeErrorMsg == "__init__() missing 1 required positional argument: 'blockchain_service'"
AttributeErrorMsg == "'str' object has no attribute 'get'"
InProgressMsg == "Initialization already in progress. Possible concurrent access."
CredentialMsg == "TLS credential file not found"
ConnectMsg == "Failed to connect to Fabric peer"
NotFoundMsg == "Chaincode function not found in supplychain.go"
AuthorizationMsg == "Authorization failed. Check caller MSP permissions."
GenericMsg == "Transaction failed. Check function name, arguments, and permissions."

\* the exceptions the ledger client raises from a contract call, each given
\* by the hint words its lower-cased text contains (none: e.g. a timeout)
ErrTexts == {{"not found"}, {"authorization"}, {"msp", "not found"},
             {"does not exist"}, {}}
\* what the ledger client returns from a contract call
Results == {"bytes", "mapTx", "mapNoTx"}

\* the settings FabricBlockchainService requires
SettingNames == {"FABRIC_CHANNEL", "FABRIC_CHAINCODE", "FABRIC_PEER_ENDPOINT",
                 "FABRIC_MSP_ID", "FABRIC_IDENTITY", "FABRIC_TLS_CA_CERT",
                 "FABRIC_IDENTITY_CERT", "FABRIC_IDENTITY_KEY"}
\* the credential files, in the order _load_tls_credentials opens them
CredFiles == <<"FABRIC_TLS_CA_CERT", "FABRIC_IDENTITY_CERT", "FABRIC_IDENTITY_KEY">>
CredFileSet == {CredFiles[i] : i \in 1..3}

\* chaincode functions and argument lists of direct service calls
FunctionNames == {"CreateBatch", "GetBatch"}
ArgLists == {<<>>, <<"b1">>}

\* str(e) of the errors evaluate_transaction raises
NoResourceMsg == "Resource does not exist. Verify the ID is correct."
EvalGenericMsg == "Evaluation failed. Check function name and arguments."
\* the payload of NoOpBlockchainService
NoOpPlaceholder == "{\"status\":\"noop\",\"message\":\"blockchain not configured\"}"

VARIABLES
    rows,         \* local store: id -> record (kind "none": no such record)
    nextId,       \* id the next committed record gets
    tasks,        \* background tasks: task id -> task
    ntasks,       \* number of tasks created so far
    binding,      \* which SupplyChainContractHelper signature the tasks meet
    svc,          \* the process-wide blockchain service: "fabric" or "noop"
    initialized,  \* FabricBlockchainService._initialized
    initLock,     \* FabricBlockchainService._init_lock
    ledger,       \* "up": the ledger answers; "hung": it never answers
    response,     \* what the latest domain write returned to its caller
    settings,     \* the FABRIC_* settings that have a value
    readable,     \* the credential files that can be opened and read
    fileReads,    \* the credential files opened so far
    construction, \* the latest constructor or factory call and what it raised
    reply,        \* the latest direct call of the service and how it ended
    gateway       \* the latest SupplyChainContractHelper call

serviceVars == <<settings, readable, fileReads, construction, reply, gateway>>

vars == <<rows, nextId, tasks, ntasks, binding, svc, initialized, initLock,
          ledger, response, settings, readable, fileReads, construction, reply,
          gateway>>

\* the number of versions of a record's updatable fields
MaxPayload == 2

\* the methods of SupplyChainContractHelper
HelperNames ==
    {"create_product", "get_product", "create_batch", "get_batch",
     "record_lifecycle_event", "get_batch_lifecycle_events",
     "create_transport_manifest", "get_transport", "add_temperature_log",
     "get_transport_temperature_logs", "record_processing",
     "get_processing_record", "issue_certification", "get_certification"}

\* helper parameters annotated int, float and bool
IntParams == {"quantity", "quantity_affected", "slaughter_count"}
FloatParams == {"temperature", "yield_kg", "quality_score"}
BoolParams == {"temperature_monitored"}

\* the domain inputs a helper method is called with
DomainInputs == {1, 2}

\* no domain write has been made yet
NoResponse == [code |-> 0, status |-> "none"]

\* ------------------------------------------------------------ the store
NoRow == [kind |-> "none", status |-> "none", tx |-> NullTx,
          err |-> NullErr, synced |-> NullAt, payload |-> 0]

\* a record constructed without blockchain_status
NewRow_without_status(kind) ==
    [kind |-> kind, status |-> "none", tx |-> NullTx, err |-> NullErr,
     synced |-> NullAt, payload |-> 1]

\* Batch(..., blockchain_status="pending"): the other sync columns are null.
\* payload counts the versions of the fields a PUT route can change.
NewRow(kind) == [kind |-> kind, status |-> "pending", tx |-> NullTx,
                 err |-> NullErr, synced |-> NullAt, payload |-> 1]

\* the four sync attributes of a loaded ORM object
Sync(row) == [status |-> row.status, tx |-> row.tx,
              err |-> row.err, synced |-> row.synced]

NoSync == Sync(NoRow)

\* the lookup taken to succeed whatever it returned
Found_unchecked(kind, id) == TRUE

\* db.query(Model).filter(Model.id == id).first() is not None
Found(kind, id) == id \in RecIds /\ rows[id].kind = kind

\* db.commit(): the unit of work flushes one UPDATE that sets exactly the
\* attributes whose value differs from the value the session loaded.
Flush(row, snap, obj) ==
    [row EXCEPT !.status = IF obj.status # snap.status THEN obj.status ELSE @,
                !.tx     = IF obj.tx # snap.tx THEN obj.tx ELSE @,
                !.err    = IF obj.err # snap.err THEN obj.err ELSE @,
                !.synced = IF obj.synced # snap.synced THEN obj.synced ELSE @]

\* ------------------------------------------------------------ the tasks
\* a task that has called no helper method
NoSent == [fromArgs |-> {}, fromRecord |-> {}, payload |-> 0]

NoTask == [kind |-> "none", rec |-> MissingId, origin |-> "none", pc |-> "none",
           snap |-> NoSync, obj |-> NoSync, result |-> "none",
           outcome |-> "none", sent |-> NoSent, session |-> "none"]

NewTask(kind, id, origin) ==
    [NoTask EXCEPT !.kind = kind, !.rec = id, !.origin = origin, !.pc = "queued"]

\* only write_batch_to_blockchain assigns blockchain_synced_at
SetsSyncedAt(kind) == kind = "batch"

\* write_regulatory_record_to_blockchain builds its result locally
CallsLedger(kind) == kind # "regulatory"

\* the try block's assignments after a result with .get
Success(obj, kind, t, txid) ==
    [status |-> "confirmed", tx |-> txid, err |-> NullErr,
     synced |-> IF SetsSyncedAt(kind) THEN t ELSE obj.synced]

\* an except block that leaves the record as it was loaded
Failure_unrecorded(obj, msg) == obj

\* the except block's assignments
Failure(obj, msg) == [obj EXCEPT !.status = "failed", !.err = msg]

\* SupplyChainContractHelper() without arguments: the helper of
\* app/services/blockchain_service.py requires the service ("positional");
\* the helper the tasks were written against takes none ("compatible").
HelperConstructs == binding = "compatible"

\* error classification of submit_transaction
Classify(text) ==
    IF "not found" \in text THEN NotFoundMsg
    ELSE IF "authorization" \in text \/ "msp" \in text THEN AuthorizationMsg
    ELSE GenericMsg

\* an error classification of evaluate_transaction
ClassifyEval(text) ==
    IF "not found" \in text THEN NotFoundMsg
    ELSE IF "does not exist" \in text THEN NoResourceMsg
    ELSE EvalGenericMsg

\* ------------------------------------------------- service construction
\* is_fabric_configured: the settings get_blockchain_service looks at
FactoryFields == {"FABRIC_CHANNEL", "FABRIC_CHAINCODE", "FABRIC_PEER_ENDPOINT"}

\* a validation that asks for no more than the factory does
RequiredFields_basic == FactoryFields

\* required_fields of _validate_configuration
RequiredFields == SettingNames

\* FabricBlockchainService.__init__: the exception it raises, "none" if none.
\* It reads no file and opens no connection.
validate_configuration(cfg) ==
    IF RequiredFields \subseteq cfg THEN "none" ELSE "BlockchainServiceError"

\* a factory without its except clause
Caught_nothing(exc) == FALSE

\* except BlockchainServiceError as e
Caught(exc) == exc = "BlockchainServiceError"

\* get_blockchain_service: the service it returns, the exception it raises
\* and whether it called FabricBlockchainService()
get_blockchain_service(cfg) ==
    IF FactoryFields \subseteq cfg
    THEN LET exc == validate_configuration(cfg)
         IN IF exc = "none"
            THEN [svc |-> "fabric", raised |-> "none", attempted |-> TRUE]
            ELSE IF Caught(exc)
            THEN [svc |-> "noop", raised |-> "none", attempted |-> TRUE]
            ELSE [svc |-> "none", raised |-> exc, attempted |-> TRUE]
    ELSE [svc |-> "noop", raised |-> "none", attempted |-> FALSE]

\* what a call of the factory leaves in construction
FactoryCall(cfg) ==
    [call |-> "factory", raised |-> get_blockchain_service(cfg).raised,
     attempted |-> get_blockchain_service(cfg).attempted]

\* _load_tls_credentials: the files it opens, in order, up to and including
\* the first that cannot be read
FilesOpened(ok) ==
    LET bad == {i \in 1..3 : CredFiles[i] \notin ok}
    IN IF bad = {} THEN CredFileSet
       ELSE {CredFiles[i] : i \in 1..(CHOOSE m \in bad : \A k \in bad : m <= k)}

NoConstruction == [call |-> "none", raised |-> "none", attempted |-> FALSE]

NoReply == [op |-> "none", fn |-> "none", args |-> <<>>, outcome |-> "none",
            cause |-> "none", text |-> {}, value |-> "none",
            connected |-> FALSE]

\* no helper method has been called yet
NoGateway == [method |-> "none", inp |-> 0, calls |-> <<>>, result |-> NoReply]

TypeOK ==
    /\ nextId \in 1..(NumRecords + 1)
    /\ ntasks \in 0..MaxTasks
    /\ binding \in {"positional", "compatible"}
    /\ svc \in {"none", "fabric", "noop"}
    /\ settings \subseteq SettingNames
    /\ readable \subseteq CredFileSet
    /\ fileReads \subseteq CredFileSet
    /\ construction.raised \in {"none", "BlockchainServiceError"}
    /\ reply.outcome \in {"none", "returned", "raised"}
    /\ initialized \in BOOLEAN
    /\ initLock \in BOOLEAN
    /\ ledger \in {"up", "hung"}
    /\ response.code \in {0, 201}
    /\ \A r \in AllIds : rows[r].status \in {"none", "pending", "confirmed", "failed"}
    /\ \A t \in TaskIds : tasks[t].pc \in {"none", "queued", "connecting", "submitting", "done"}
    /\ \A t \in TaskIds : tasks[t].session \in {"none", "open", "closed"}
    /\ \A r \in AllIds : rows[r].payload \in 0..MaxPayload

Init ==
    /\ rows = [r \in AllIds |-> NoRow]
    /\ nextId = 1
    /\ tasks = [t \in TaskIds |-> NoTask]
    /\ ntasks = 0
    /\ binding \in {"positional", "compatible"}
    /\ \/ settings = SettingNames /\ readable \in {CredFileSet, CredFileSet \ {CredFiles[3]}}
       \/ settings = {} /\ readable = {}
    /\ svc = get_blockchain_service(settings).svc
    /\ construction = FactoryCall(settings)
    /\ fileReads = {}
    /\ reply = NoReply
    /\ gateway = NoGateway
    /\ initialized = FALSE
    /\ initLock = FALSE
    /\ ledger = "up"
    /\ response = NoResponse

\* ----------------------------------------------------------- the routes
\* db.add / db.commit are reached only when no HTTPException was raised
Commits(code) == code = 201

\* a handler that answers only after the ledger write
Response_after_sync(kind, code) ==
    [code |-> IF code = 201 /\ ledger = "hung" THEN 500 ELSE code,
     status |-> IF code # 201 THEN "none"
                ELSE IF svc = "noop" THEN "failed" ELSE NewRow(kind).status]

\* return batch: the refreshed record under status_code 201, or the
\* HTTPException raised by a check
Response(kind, code) ==
    [code |-> code, status |-> IF code = 201 THEN NewRow(kind).status ELSE "none"]

\* add_task placed ahead of the checks that raise HTTPException
Schedules_before_checks(code) == TRUE

\* background_tasks.add_task follows db.commit and db.refresh
Schedules(code) == code = 201

DomainWrite(kind, code) ==
    /\ nextId <= NumRecords
    /\ ntasks < MaxTasks
    /\ rows' = IF Commits(code) THEN [rows EXCEPT ![nextId] = NewRow(kind)] ELSE rows
    /\ nextId' = IF Commits(code) THEN nextId + 1 ELSE nextId
    /\ tasks' = IF Schedules(code)
                THEN [tasks EXCEPT ![ntasks + 1] = NewTask(kind, nextId, "route")]
                ELSE tasks
    /\ ntasks' = IF Schedules(code) THEN ntasks + 1 ELSE ntasks
    /\ response' = IF Commits(code) THEN Response(kind, code) ELSE response
    /\ UNCHANGED <<binding, svc, initialized, initLock, ledger>>
    /\ UNCHANGED serviceVars

create_batch_checks(req) ==
    IF req.role # "farmer" THEN 403
    ELSE IF ~req.parent THEN 404
    ELSE IF ~req.valid THEN 400
    ELSE 201

record_lifecycle_event_checks(req) ==
    IF ~req.parent THEN 404
    ELSE IF req.role = "farmer" /\ ~req.own THEN 403
    ELSE 201

create_processing_record_checks(req) ==
    IF ~req.parent THEN 404
    ELSE IF req.role \notin {"supplier", "admin"} THEN 403
    ELSE 201

create_certification_checks(req) ==
    IF ~req.parent THEN 404
    ELSE IF req.role \notin {"supplier", "admin"} THEN 403
    ELSE 201

create_transport_checks(req) ==
    IF ~req.parent THEN 404
    ELSE IF req.role \notin {"farmer", "supplier", "admin"} THEN 403
    ELSE 201

create_regulatory_record_checks(req) ==
    IF req.role \notin {"regulator", "admin"} THEN 403
    ELSE IF ~req.parent THEN 404
    ELSE 201

create_batch == \E req \in Requests : DomainWrite("batch", create_batch_checks(req))

record_lifecycle_event ==
    \E req \in Requests : DomainWrite("event", record_lifecycle_event_checks(req))

create_processing_record ==
    \E req \in Requests : DomainWrite("processing", create_processing_record_checks(req))

create_certification ==
    \E req \in Requests : DomainWrite("cert", create_certification_checks(req))

create_transport ==
    \E req \in Requests : DomainWrite("transport", create_transport_checks(req))

create_regulatory_record ==
    \E req \in Requests : DomainWrite("regulatory", create_regulatory_record_checks(req))

\* ------------------------------------------------------- the task steps
\* the contract call of task t was issued (by either service)
LedgerCallIssued(t) ==
    tasks[t].pc = "submitting" \/ tasks[t].result \in {"returned", "raised"}

\* a lookup that takes the most recently created row
Target_latest(t) == nextId - 1

\* .filter(Model.id == id): the row a task reads and updates is the one
\* whose id the task was called with
Target(t) == tasks[t].rec

\* the domain values a task hands to its helper method that are parameters
\* of the task function, bound when the task was scheduled (the record's own
\* id is not counted)
ArgumentFields(kind) ==
    CASE kind = "batch" -> {"farmer_id", "batch_number"}
      [] kind = "event" -> {"batch_id", "event_type", "description"}
      [] kind = "transport" -> {"batch_id"}
      [] kind = "processing" -> {"batch_id"}
      [] OTHER -> {}

\* the domain values a task hands to its helper method that are attributes
\* of the record it has just queried
RecordFields(kind) ==
    CASE kind = "batch" -> {"product_id", "quantity", "location"}
      [] kind = "event" -> {"quantity_affected"}
      [] kind = "transport" ->
            {"from_party_id", "to_party_id", "origin_location",
             "destination_location", "vehicle_id"}
      [] kind = "processing" ->
            {"facility_name", "slaughter_count", "yield_kg", "quality_score"}
      [] kind = "cert" -> {"cert_type", "status", "issuer_id"}
      [] OTHER -> {}

\* what task t has handed to its helper method once this step is over: the
\* arguments are evaluated when the task, started on a record it found,
\* calls the helper method
Sent(t) ==
    IF /\ tasks[t].pc = "queued"
       /\ Found(tasks[t].kind, Target(t))
       /\ HelperConstructs
       /\ CallsLedger(tasks[t].kind)
    THEN [fromArgs |-> ArgumentFields(tasks[t].kind),
          fromRecord |-> RecordFields(tasks[t].kind),
          payload |-> rows[Target(t)].payload]
    ELSE tasks[t].sent

\* finally: db.commit(); db.close() after the try or the except block.
\* result: how the service call ended ("returned", "raised" by the contract
\* call, "refused" by the connection step, "none": no service call ended).
EndTask(t, snap, obj, result, outcome) ==
    /\ rows' = [rows EXCEPT ![Target(t)] = Flush(@, snap, obj)]
    /\ tasks' = [tasks EXCEPT ![t] = [@ EXCEPT !.pc = "done", !.snap = NoSync,
                                               !.obj = obj, !.result = result,
                                               !.outcome = outcome,
                                               !.sent = Sent(t),
                                               !.session = "closed"]]

\* except Exception as e: re-query, and if the record is there mark it failed
Except(t, snap, msg, result) ==
    IF Found(tasks[t].kind, tasks[t].rec)
    THEN EndTask(t, snap, Failure(snap, msg), result, "failed")
    ELSE EndTask(t, snap, snap, result, "failed")

\* if not batch: logger.error(...); return
Abort(t) ==
    /\ tasks' = [tasks EXCEPT ![t] = [@ EXCEPT !.pc = "done", !.outcome = "aborted",
                                               !.session = "closed"]]
    /\ UNCHANGED rows

\* the task suspends in an await of the service
Suspend(t, snap, pc) ==
    /\ tasks' = [tasks EXCEPT ![t] = [@ EXCEPT !.pc = pc, !.snap = snap, !.obj = snap,
                                               !.sent = Sent(t),
                                               !.session = "open"]]
    /\ UNCHANGED rows

\* NoOpBlockchainService.submit_transaction returns the placeholder string
\* at once; the helper hands it on and result.get raises AttributeError.
NoOpSubmit(t, snap) ==
    /\ Except(t, snap, AttributeErrorMsg, "returned")
    /\ UNCHANGED <<initialized, initLock, fileReads>>

\* an initialization that does not look at the guard
GuardHeld_ignored == FALSE

\* if self._init_lock: raise BlockchainConnectionError(...)
GuardHeld == initLock

\* a service that connects before every call (mutant)
NeedsInit_always == TRUE

\* if not self._initialized: await self._initialize_connection()
NeedsInit == ~initialized

\* FabricBlockchainService.submit_transaction up to its first await
FabricSubmit(t, snap) ==
    IF ~NeedsInit
    THEN /\ Suspend(t, snap, "submitting")
         /\ UNCHANGED <<initialized, initLock, fileReads>>
    ELSE IF GuardHeld
    THEN /\ Except(t, snap, InProgressMsg, "refused")
         /\ UNCHANGED <<initialized, initLock, fileReads>>
    ELSE /\ fileReads' = fileReads \cup FilesOpened(readable)
         /\ IF CredFileSet \subseteq readable
            THEN /\ Suspend(t, snap, "connecting")
                 /\ initLock' = TRUE
                 /\ UNCHANGED initialized
            ELSE /\ Except(t, snap, CredentialMsg, "refused")
                 /\ UNCHANGED <<initialized, initLock>>

\* write_*_to_blockchain from SessionLocal() to the first await or the end
TaskStart(t) ==
    /\ tasks[t].pc = "queued"
    /\ LET kind == tasks[t].kind
           id == Target(t)
           snap == Sync(rows[id])
       IN IF ~Found(kind, id)
          THEN Abort(t) /\ UNCHANGED <<initialized, initLock, fileReads>>
          ELSE IF ~HelperConstructs
          THEN /\ Except(t, snap, TypeErrorMsg, "none")
               /\ UNCHANGED <<initialized, initLock, fileReads>>
          ELSE IF ~CallsLedger(kind)
          THEN /\ EndTask(t, snap, Success(snap, kind, t, <<"id", id>>),
                          "none", "confirmed")
               /\ UNCHANGED <<initialized, initLock, fileReads>>
          ELSE IF svc = "noop"
          THEN NoOpSubmit(t, snap)
          ELSE FabricSubmit(t, snap)
    /\ UNCHANGED <<nextId, ntasks, binding, svc, ledger, response>>
    /\ UNCHANGED <<settings, readable, construction, reply, gateway>>

\* a guard released only when the connection was established (mutant)
LockAfter_success_only(ok) == ~ok

\* finally: self._init_lock = False
LockAfter(ok) == FALSE

\* await connect(...) returns or raises; finally: self._init_lock = False
ConnectReturn(t) ==
    /\ tasks[t].pc = "connecting"
    /\ ledger = "up"
    /\ \/ /\ initialized' = TRUE
          /\ initLock' = LockAfter(TRUE)
          /\ tasks' = [tasks EXCEPT ![t] = [@ EXCEPT !.pc = "submitting"]]
          /\ UNCHANGED rows
       \/ /\ Except(t, tasks[t].snap, ConnectMsg, "refused")
          /\ initLock' = LockAfter(FALSE)
          /\ UNCHANGED initialized
    /\ UNCHANGED <<nextId, ntasks, binding, svc, ledger, response>>
    /\ UNCHANGED serviceVars

\* await self._contract.submit_transaction(...) returns or raises, and the
\* task runs on to its end
SubmitReturn(t) ==
    /\ tasks[t].pc = "submitting"
    /\ ledger = "up"
    /\ \/ \E res \in Results :
            IF res = "bytes"
            THEN Except(t, tasks[t].snap, AttributeErrorMsg, "returned")
            ELSE EndTask(t, tasks[t].snap,
                         Success(tasks[t].snap, tasks[t].kind, t,
                                 IF res = "mapTx" THEN <<"tx", t>> ELSE NullTx),
                         "returned", "confirmed")
       \/ \E text \in ErrTexts :
            Except(t, tasks[t].snap, Classify(text), "raised")
    /\ UNCHANGED <<nextId, ntasks, binding, svc, initialized, initLock, ledger,
                   response>>
    /\ UNCHANGED serviceVars

\* the task function called again for a record, or for an id without one
\* (reconciliation is re-invocable; retries are manual)
InvokeTask ==
    /\ ntasks < MaxTasks
    /\ \E id \in AllIds, kind \in Kinds :
          /\ id = MissingId \/ rows[id].kind = kind
          /\ tasks' = [tasks EXCEPT ![ntasks + 1] = NewTask(kind, id, "direct")]
    /\ ntasks' = ntasks + 1
    /\ UNCHANGED <<rows, nextId, binding, svc, initialized, initLock, ledger,
                   response>>
    /\ UNCHANGED serviceVars

\* the ledger stops answering (no call in flight ever returns)
LedgerHangs ==
    /\ ledger = "up"
    /\ ledger' = "hung"
    /\ UNCHANGED <<rows, nextId, tasks, ntasks, binding, svc, initialized,
                   initLock, response>>
    /\ UNCHANGED serviceVars

Next ==
    \/ create_batch
    \/ record_lifecycle_event
    \/ create_processing_record
    \/ create_certification
    \/ create_transport
    \/ create_regulatory_record
    \/ InvokeTask
    \/ LedgerHangs
    \/ \E t \in TaskIds : TaskStart(t)
    \/ \E t \in TaskIds : ConnectReturn(t)
    \/ \E t \in TaskIds : SubmitReturn(t)

Spec == Init /\ [][Next]_vars

\* ------------------------------------------- updates and store failures
\* the kinds of record a PUT route of the backend updates
UpdatableKinds == {"batch", "processing", "cert"}

\* a PUT route sets the fields of its update schema on the record and
\* commits; it touches no sync column and schedules nothing
PutRoute(kind) ==
    /\ \E id \in RecIds :
          /\ rows[id].kind = kind
          /\ rows[id].payload < MaxPayload
          /\ rows' = [rows EXCEPT ![id] = [@ EXCEPT !.payload = @ + 1]]
    /\ UNCHANGED <<nextId, tasks, ntasks, binding, svc, initialized, initLock,
                   ledger, response>>
    /\ UNCHANGED serviceVars

update_batch == PutRoute("batch")

update_processing_record == PutRoute("processing")

update_certification == PutRoute("cert")

\* the service call of task t has ended and the task has run on to its
\* finally block, where db.commit() raises: nothing is written, db.close()
\* is not reached, and the exception leaves the task
CommitFails(t) ==
    /\ tasks[t].pc = "submitting"
    /\ ledger = "up"
    /\ tasks' = [tasks EXCEPT ![t] = [@ EXCEPT !.pc = "done", !.snap = NoSync,
                                               !.result = "returned",
                                               !.outcome = "crashed"]]
    /\ UNCHANGED <<rows, nextId, ntasks, binding, svc, initialized, initLock,
                   ledger, response>>
    /\ UNCHANGED serviceVars

StoreNext ==
    \/ Next
    \/ update_batch
    \/ update_processing_record
    \/ update_certification
    \/ \E t \in TaskIds : CommitFails(t)

StoreSpec == Init /\ [][StoreNext]_vars

\* the event loop runs every ready coroutine; an await resumes when the
\* awaited call returns
FairSpec ==
    /\ Spec
    /\ \A t \in TaskIds : WF_vars(TaskStart(t))
    /\ \A t \in TaskIds : WF_vars(ConnectReturn(t))
    /\ \A t \in TaskIds : WF_vars(SubmitReturn(t))

\* ------------------------------------------- the service, called directly
\* The settings and the credential files are drawn from all combinations;
\* the service is constructed and then called by one caller at a time, each
\* call running to its end.

\* a placeholder that repeats the function name
NoOpReply_echo(op, fn, args) ==
    [op |-> op, fn |-> fn, args |-> args, outcome |-> "returned",
     cause |-> "none", text |-> {}, value |-> fn, connected |-> FALSE]

\* NoOpBlockchainService.submit_transaction / evaluate_transaction
NoOpReply(op, fn, args) ==
    [op |-> op, fn |-> fn, args |-> args, outcome |-> "returned",
     cause |-> "none", text |-> {}, value |-> NoOpPlaceholder,
     connected |-> FALSE]

\* the exception a call of the Fabric service raised
Raised(op, fn, args, cause, text, msg) ==
    [op |-> op, fn |-> fn, args |-> args, outcome |-> "raised",
     cause |-> cause, text |-> text, value |-> msg, connected |-> FALSE]

\* result.decode("utf-8") if isinstance(result, bytes) else result
Decode(res) == IF res = "bytes" THEN "str" ELSE res

\* FabricBlockchainService.submit_transaction / evaluate_transaction;
\* connected tells whether this call established the connection
FabricCall(op, fn, args) ==
    IF NeedsInit /\ ~(CredFileSet \subseteq readable)
    THEN /\ reply' = Raised(op, fn, args, "credentials", {}, CredentialMsg)
         /\ fileReads' = fileReads \cup FilesOpened(readable)
         /\ UNCHANGED initialized
    ELSE /\ fileReads' = IF NeedsInit
                         THEN fileReads \cup FilesOpened(readable)
                         ELSE fileReads
         /\ \/ /\ NeedsInit
               /\ reply' = Raised(op, fn, args, "connect", {}, ConnectMsg)
               /\ UNCHANGED initialized
            \/ /\ initialized' = TRUE
               /\ \E res \in Results :
                     reply' = [op |-> op, fn |-> fn, args |-> args,
                               outcome |-> "returned", cause |-> "none",
                               text |-> {}, value |-> Decode(res),
                               connected |-> NeedsInit]
            \/ /\ initialized' = TRUE
               /\ \E text \in ErrTexts :
                     reply' = [Raised(op, fn, args, "call", text,
                                      IF op = "submit" THEN Classify(text)
                                      ELSE ClassifyEval(text))
                               EXCEPT !.connected = NeedsInit]

ServiceCall(op, fn, args) ==
    /\ svc \in {"fabric", "noop"}
    /\ IF svc = "noop"
       THEN /\ reply' = NoOpReply(op, fn, args)
            /\ UNCHANGED <<initialized, fileReads>>
       ELSE FabricCall(op, fn, args)
    /\ UNCHANGED <<rows, nextId, tasks, ntasks, binding, svc, initLock, ledger,
                   response, settings, readable, construction>>

submit_transaction ==
    /\ \E fn \in FunctionNames, args \in ArgLists :
          ServiceCall("submit", fn, args)
    /\ UNCHANGED gateway

evaluate_transaction ==
    /\ \E fn \in FunctionNames, args \in ArgLists :
          ServiceCall("evaluate", fn, args)
    /\ UNCHANGED gateway

\* FabricBlockchainService() called by itself
FabricBlockchainService_init ==
    /\ construction' = [call |-> "constructor",
                        raised |-> validate_configuration(settings),
                        attempted |-> TRUE]
    /\ UNCHANGED <<rows, nextId, tasks, ntasks, binding, svc, initialized,
                   initLock, ledger, response, settings, readable, fileReads,
                   reply, gateway>>

\* a singleton that every call builds again
IsBuilt_never == FALSE

\* not (_blockchain_service is None)
IsBuilt == svc # "none"

\* initialize_blockchain_service: the first call builds the singleton, a
\* later call returns the instance that exists
initialize_blockchain_service ==
    /\ IF IsBuilt
       THEN /\ construction' = [call |-> "existing", raised |-> "none",
                                attempted |-> FALSE]
            /\ UNCHANGED svc
       ELSE /\ svc' = get_blockchain_service(settings).svc
            /\ construction' = FactoryCall(settings)
    /\ UNCHANGED <<rows, nextId, tasks, ntasks, binding, initialized, initLock,
                   ledger, response, settings, readable, fileReads, reply,
                   gateway>>

\* the settings object is given other values after the service was built:
\* every FABRIC_* setting is filled in, or every one is cleared
SettingsChange ==
    /\ svc # "none"
    /\ \E cfg \in {SettingNames, {}} :
          /\ cfg # settings
          /\ settings' = cfg
    /\ UNCHANGED <<rows, nextId, tasks, ntasks, binding, svc, initialized,
                   initLock, ledger, response, readable, fileReads,
                   construction, reply, gateway>>

\* FabricBlockchainService.close: nothing without a gateway; otherwise the
\* gateway is closed and forgotten, or closing raises and is only logged
close ==
    /\ svc = "fabric"
    /\ \/ initialized' = FALSE
       \/ initialized /\ UNCHANGED initialized
    /\ UNCHANGED <<rows, nextId, tasks, ntasks, binding, svc, initLock, ledger,
                   response, settings, readable, fileReads, construction,
                   reply, gateway>>

ServiceInit ==
    /\ rows = [r \in AllIds |-> NoRow]
    /\ nextId = 1
    /\ tasks = [t \in TaskIds |-> NoTask]
    /\ ntasks = 0
    /\ binding = "compatible"
    /\ settings \in SUBSET SettingNames
    /\ readable \in SUBSET CredFileSet
    /\ svc = "none"
    /\ construction = NoConstruction
    /\ fileReads = {}
    /\ reply = NoReply
    /\ gateway = NoGateway
    /\ initialized = FALSE
    /\ initLock = FALSE
    /\ ledger = "up"
    /\ response = NoResponse

ServiceNext ==
    \/ FabricBlockchainService_init
    \/ initialize_blockchain_service
    \/ SettingsChange
    \/ close
    \/ submit_transaction
    \/ evaluate_transaction

ServiceSpec == ServiceInit /\ [][ServiceNext]_vars

\* ------------------------------------------- SupplyChainContractHelper
\* await self.service.submit_transaction(...) in every method (mutant)
HelperOp_all_submit(m) == "submit"

\* the transport method a helper method awaits
HelperOp(m) ==
    IF m \in {"get_product", "get_batch", "get_batch_lifecycle_events",
              "get_transport", "get_transport_temperature_logs",
              "get_processing_record", "get_certification"}
    THEN "evaluate"
    ELSE "submit"

\* the chaincode function name a helper method passes first
HelperFn(m) ==
    CASE m = "create_product" -> "CreateProduct"
      [] m = "get_product" -> "GetProduct"
      [] m = "create_batch" -> "CreateBatch"
      [] m = "get_batch" -> "GetBatch"
      [] m = "record_lifecycle_event" -> "RecordLifecycleEvent"
      [] m = "get_batch_lifecycle_events" -> "GetBatchLifecycleEvents"
      [] m = "create_transport_manifest" -> "CreateTransportManifest"
      [] m = "get_transport" -> "GetTransport"
      [] m = "add_temperature_log" -> "AddTemperatureLog"
      [] m = "get_transport_temperature_logs" -> "GetTransportTemperatureLogs"
      [] m = "record_processing" -> "RecordProcessing"
      [] m = "get_processing_record" -> "GetProcessingRecord"
      [] m = "issue_certification" -> "IssueCertification"
      [] m = "get_certification" -> "GetCertification"

\* create_batch passing farmer_id before product_id (mutant)
HelperParams_swapped(m) ==
    IF m = "create_batch"
    THEN <<"batch_id", "farmer_id", "product_id", "batch_number", "quantity",
           "start_date", "expected_end_date", "location", "qr_code", "notes">>
    ELSE <<m>>

\* the parameters a helper method passes after the function name, in order
HelperParams(m) ==
    CASE m = "create_product" -> <<"product_id", "name", "description">>
      [] m = "get_product" -> <<"product_id">>
      [] m = "create_batch" ->
            <<"batch_id", "product_id", "farmer_id", "batch_number",
              "quantity", "start_date", "expected_end_date", "location",
              "qr_code", "notes">>
      [] m = "get_batch" -> <<"batch_id">>
      [] m = "record_lifecycle_event" ->
            <<"event_id", "batch_id", "event_type", "description",
              "recorded_by", "event_date", "quantity_affected", "metadata">>
      [] m = "get_batch_lifecycle_events" -> <<"batch_id">>
      [] m = "create_transport_manifest" ->
            <<"transport_id", "batch_id", "from_party_id", "to_party_id",
              "vehicle_id", "driver_name", "departure_time",
              "origin_location", "destination_location",
              "temperature_monitored", "notes">>
      [] m = "get_transport" -> <<"transport_id">>
      [] m = "add_temperature_log" ->
            <<"log_id", "transport_id", "temperature", "timestamp",
              "location">>
      [] m = "get_transport_temperature_logs" -> <<"transport_id">>
      [] m = "record_processing" ->
            <<"processing_id", "batch_id", "process_date", "facility_name",
              "slaughter_count", "yield_kg", "quality_score", "notes">>
      [] m = "get_processing_record" -> <<"processing_id">>
      [] m = "issue_certification" ->
            <<"certification_id", "processing_id", "cert_type",
              "issued_date", "expiry_date", "issuer_id", "notes">>
      [] m = "get_certification" -> <<"certification_id">>

\* the value of parameter p in domain input inp: integers for the int
\* parameters, floats (by their integral part) for the float parameters,
\* a boolean for temperature_monitored and a string for the others
Value(inp, p) ==
    IF p \in IntParams \cup FloatParams THEN (IF inp = 1 THEN 7 ELSE 0)
    ELSE IF p \in BoolParams THEN inp = 1
    ELSE IF inp = 1 THEN p ELSE "x"

\* str(v) for int and float, str(v).lower() for bool, v itself for str
Str(p, v) ==
    IF p \in IntParams THEN ToString(v)
    ELSE IF p \in FloatParams THEN (IF v = 7 THEN "7.0" ELSE "0.0")
    ELSE IF p \in BoolParams THEN (IF v THEN "true" ELSE "false")
    ELSE v

\* the arguments a helper method passes after the function name
HelperArgs(m, inp) ==
    [i \in 1..Len(HelperParams(m)) |->
        Str(HelperParams(m)[i], Value(inp, HelperParams(m)[i]))]

\* one call of a helper method: return await self.service.<op>(fn, *args)
HelperCall(m, inp) ==
    /\ ServiceCall(HelperOp(m), HelperFn(m), HelperArgs(m, inp))
    /\ gateway' = [method |-> m, inp |-> inp,
                   calls |-> <<[op |-> HelperOp(m), fn |-> HelperFn(m),
                                args |-> HelperArgs(m, inp)]>>,
                   result |-> reply']

\* a helper built over the service the factory selected
HelperInit == Init /\ binding = "compatible"

HelperNext == \E m \in HelperNames, inp \in DomainInputs : HelperCall(m, inp)

HelperSpec == HelperInit /\ [][HelperNext]_vars

\* ----------------------------------------------------------- properties
\* task t ends in this step
Ends(t) == tasks[t].pc # "done" /\ tasks'[t].pc = "done"

\* the transaction id the record of task t had when t read it
PreAttemptTx(t) ==
    IF tasks[t].pc = "queued" THEN rows[tasks[t].rec].tx ELSE tasks[t].snap.tx

C10_MissingRecordAborts ==
    [][\A t \in TaskIds :
          (tasks[t].pc = "queued" /\ tasks'[t].pc # "queued"
           /\ rows[tasks[t].rec].kind # tasks[t].kind) =>
              /\ tasks'[t].pc = "done"
              /\ tasks'[t].result = "none"
              /\ rows' = rows
              /\ initialized' = initialized
              /\ initLock' = initLock]_vars

\* a task for an id without a record has run and aborted while a record exists
C10_Witness ==
    /\ \E t \in TaskIds : tasks[t].pc = "done" /\ tasks[t].outcome = "aborted"
    /\ \E id \in RecIds : rows[id].kind # "none"

\* the record of task t is still as t read it (no other task committed to it
\* since)
RowAsRead(t) ==
    tasks[t].pc = "queued" \/ Sync(rows[tasks[t].rec]) = tasks[t].snap

BackgroundStep ==
    \/ tasks' # tasks /\ ntasks' = ntasks
    \/ ledger' # ledger

OutcomeWritten(id) ==
    \E t \in TaskIds :
        /\ tasks[t].rec = id /\ tasks[t].pc = "done"
        /\ tasks[t].outcome \in {"confirmed", "failed"}

\* C13: from its commit until a task for it has written an outcome, a record
\* of any kind is PENDING, with no transaction id, error or sync time.
C13_PendingUntilOutcome ==
    \A id \in RecIds :
        (rows[id].kind # "none" /\ ~OutcomeWritten(id)) =>
            Sync(rows[id]) = [status |-> "pending", tx |-> NullTx,
                              err |-> NullErr, synced |-> NullAt]

\* a committed record whose task is waiting for the ledger, next to one
\* whose task has not started
C13_Witness ==
    /\ \E t \in TaskIds :
          /\ tasks[t].origin = "route" /\ tasks[t].pc = "submitting"
          /\ tasks[t].kind \in {"batch", "event", "processing", "cert"}
          /\ rows[tasks[t].rec].status = "pending"
    /\ \E t \in TaskIds :
          /\ tasks[t].origin = "route" /\ tasks[t].pc = "queued"
          /\ rows[tasks[t].rec].status = "pending"

\* C14: a task reads and writes only the row of the id it was called with:
\* a step of task t changes no other row and no other task's session, and
\* what t loads is the row of its own id.
C14_TasksIsolated ==
    [][\A t \in TaskIds :
          (tasks[t].pc \in {"queued", "connecting", "submitting"}
           /\ tasks'[t] # tasks[t]) =>
              /\ \A id \in AllIds \ {tasks[t].rec} : rows'[id] = rows[id]
              /\ \A u \in TaskIds \ {t} : tasks'[u] = tasks[u]
              /\ (tasks[t].pc = "queued"
                  /\ tasks'[t].pc \in {"connecting", "submitting"}) =>
                     tasks'[t].snap = Sync(rows[tasks[t].rec])]_vars

\* two tasks for two different records ran concurrently: one has confirmed
\* its record while the other, still waiting, has its record PENDING
C14_Witness ==
    \E t, u \in TaskIds :
        /\ tasks[t].rec \in RecIds /\ tasks[u].rec \in RecIds
        /\ tasks[t].rec # tasks[u].rec
        /\ tasks[t].pc = "done" /\ tasks[t].result = "returned"
        /\ rows[tasks[t].rec].status = "confirmed"
        /\ tasks[u].pc = "submitting"
        /\ rows[tasks[u].rec].status = "pending"

\* task t is about to call submit on the Fabric service
CallsFabric(t) ==
    /\ tasks[t].pc = "queued"
    /\ tasks[t].rec \in RecIds
    /\ rows[tasks[t].rec].kind = tasks[t].kind
    /\ tasks[t].kind # "regulatory"
    /\ binding = "compatible"
    /\ svc = "fabric"

\* C15: after every step at most one connection attempt is in progress, and
\* the guard is held exactly while one is (none is at the start); a submit
\* that arrives meanwhile fails with the
\* "already in progress" connection error, leaving _initialized and the
\* guard as they are.
C15_ConnectionGuard ==
    [][/\ Cardinality({t \in TaskIds : tasks'[t].pc = "connecting"}) <= 1
       /\ initLock' <=> \E t \in TaskIds : tasks'[t].pc = "connecting"
       /\ \A t \in TaskIds :
            (CallsFabric(t) /\ initLock /\ tasks'[t].pc # "queued") =>
                /\ tasks'[t].pc = "done"
                /\ tasks'[t].result = "refused"
                /\ tasks'[t].obj.err = InProgressMsg
                /\ initLock'
                /\ initialized' = initialized]_vars

\* a task was refused by the guard while another is still connecting
C15_Witness ==
    /\ initLock
    /\ \E t, u \in TaskIds :
          /\ tasks[t].pc = "connecting"
          /\ tasks[u].pc = "done" /\ tasks[u].result = "refused"
          /\ tasks[u].obj.err = InProgressMsg

\* C16: FabricBlockchainService() with any required setting missing raises
\* the configuration error from the constructor itself, which opens no
\* credential file, starts no connection and makes no ledger call.
C16_MissingSettingFailsFast ==
    [][(construction'.call = "constructor" /\ construction' # construction) =>
            /\ settings # SettingNames =>
                  construction'.raised = "BlockchainServiceError"
            /\ fileReads' = fileReads
            /\ initialized' = initialized
            /\ initLock' = initLock
            /\ reply' = reply
            /\ svc' = svc]_vars

\* the constructor has raised with exactly one setting missing, one that
\* the factory's own test does not look at
C16_Witness ==
    /\ construction.call = "constructor"
    /\ construction.raised = "BlockchainServiceError"
    /\ Cardinality(settings) = Cardinality(SettingNames) - 1
    /\ FactoryFields \subseteq settings
    /\ fileReads = {}

\* C17: with every setting present but a credential file that cannot be
\* read, the factory returns the no-op service, and no later call fails on
\* the credentials.
C17_UnreadableCredentialFallsBack ==
    (construction.call = "factory" /\ settings = SettingNames
     /\ readable # CredFileSet) =>
        /\ svc = "noop"
        /\ reply.cause # "credentials"

\* C18: the factory returns the Fabric service when every required setting
\* is present and the no-op service when any is absent; it raises nothing
\* to its caller and opens no credential file.
C18_FactorySelection ==
    [][(construction'.call = "factory" /\ construction' # construction) =>
            /\ construction'.raised = "none"
            /\ settings = SettingNames => svc' = "fabric"
            /\ settings # SettingNames => svc' = "noop"
            /\ fileReads' = {}
            /\ initialized' = initialized
            /\ reply' = reply]_vars

\* the factory has fallen back to the no-op service after the constructor
\* raised: the three settings the factory tests are present, another is not
C18_Witness ==
    /\ construction.call = "factory"
    /\ construction.raised = "none"
    /\ svc = "noop"
    /\ FactoryFields \subseteq settings
    /\ Cardinality(settings) = Cardinality(SettingNames) - 1
    /\ readable = CredFileSet

\* C19: every submit and evaluate of the no-op service, for any function
\* name and argument list, returns the one placeholder string, raises
\* nothing, and changes nothing but the caller's result: no file is opened,
\* no connection state touched, no record written.
C19_NoOpPlaceholder ==
    /\ []((svc = "noop" /\ reply # NoReply) =>
             /\ reply.outcome = "returned"
             /\ reply.value = NoOpPlaceholder)
    /\ [][(svc = "noop" /\ reply' # reply) =>
            /\ fileReads' = fileReads
            /\ initialized' = initialized
            /\ initLock' = initLock
            /\ ledger' = ledger
            /\ rows' = rows
            /\ svc' = svc]_vars

\* the no-op service has answered an evaluate with arguments
C19_Witness ==
    /\ svc = "noop"
    /\ reply.op = "evaluate" /\ reply.fn = "GetBatch" /\ reply.args # <<>>
    /\ reply.value = NoOpPlaceholder

\* C20: when the ledger call of a submit or of an evaluate fails, the error
\* raised is chosen by the failure text: "not found" gives the
\* function-not-found error; otherwise "authorization" or "msp" gives the
\* permission error; anything else gives the generic error of the call.
C20_ErrorClassification ==
    reply.cause = "call" =>
        /\ reply.outcome = "raised"
        /\ reply.value =
              IF "not found" \in reply.text THEN NotFoundMsg
              ELSE IF "authorization" \in reply.text \/ "msp" \in reply.text
                   THEN AuthorizationMsg
              ELSE IF reply.op = "submit" THEN GenericMsg
              ELSE EvalGenericMsg

\* C21: every state-changing helper method makes exactly one submit call and
\* every get-by-id method exactly one evaluate call on the transport, makes
\* no other transport call, and returns the transport's response unchanged
\* (a raised exception included).
C21_OneCallPerMethod ==
    gateway # NoGateway =>
        /\ Len(gateway.calls) = 1
        /\ gateway.calls[1].op =
              IF gateway.method \in
                    {"create_product", "create_batch", "record_lifecycle_event",
                     "create_transport_manifest", "add_temperature_log",
                     "record_processing", "issue_certification"}
              THEN "submit"
              ELSE "evaluate"
        /\ reply.op = gateway.calls[1].op
        /\ reply.fn = gateway.calls[1].fn
        /\ reply.args = gateway.calls[1].args
        /\ gateway.result = reply

\* C21 witness: get_batch was called on the Fabric service and returned the
\* decoded ledger response.
C21_Witness ==
    /\ gateway.method = "get_batch"
    /\ svc = "fabric"
    /\ gateway.result.outcome = "returned"
    /\ gateway.result.value = "str"

\* C22: create_batch sends CreateBatch with the arguments batch id, product
\* id, farmer id, batch number, quantity as a string, start date, expected
\* end date, location, QR code, notes, in this order, whatever was called
\* before.
C22_CreateBatchArguments ==
    gateway.method = "create_batch" =>
        gateway.calls =
            <<[op |-> "submit", fn |-> "CreateBatch",
               args |-> IF gateway.inp = 1
                        THEN <<"batch_id", "product_id", "farmer_id",
                               "batch_number", "7", "start_date",
                               "expected_end_date", "location", "qr_code",
                               "notes">>
                        ELSE <<"x", "x", "x", "x", "0", "x", "x", "x", "x",
                               "x">>]>>

\* C22 witness: create_batch was called for input 1 on the Fabric service
\* and the ledger call it made raised.
C22_Witness ==
    /\ gateway.method = "create_batch"
    /\ gateway.inp = 1
    /\ initialized
    /\ gateway.result.outcome = "raised"
\* C23: once initialize_blockchain_service has built the service, no later
\* call and no later change of the settings replaces it: the factory runs
\* only while no instance exists, and every later call returns the instance
\* that exists.
C23_Singleton ==
    [][/\ svc # "none" => svc' = svc
       /\ (construction'.call = "factory" /\ construction' # construction) =>
              svc = "none"
       /\ (construction'.call = "existing" /\ construction' # construction) =>
              svc # "none"]_vars

\* C23 witness: the no-op service was selected with no setting present, the
\* settings were then all filled in, and a later call of
\* initialize_blockchain_service returned the no-op service that existed.
C23_Witness ==
    /\ construction.call = "existing"
    /\ svc = "noop"
    /\ settings = SettingNames

\* C28: when any required setting is absent, the factory returns the no-op
\* service without calling FabricBlockchainService().
C28_NoAttemptWhenIncomplete ==
    [][(construction'.call = "factory" /\ construction' # construction
        /\ settings # SettingNames) =>
            /\ svc' = "noop"
            /\ ~construction'.attempted]_vars
\* C27: the Fabric service connects lazily and at most once: a constructor
\* or factory call makes no connection; a call on an unconnected service
\* reaches the ledger only after it has established the connection; a call
\* on a connected service establishes none (close() makes the service
\* unconnected again).
C27_LazyConnectOnce ==
    [][/\ construction' # construction =>
              initialized' = initialized /\ fileReads' = fileReads
       /\ (reply' # reply /\ reply'.connected) => ~initialized
       /\ (reply' # reply /\ svc = "fabric"
           /\ (reply'.outcome = "returned" \/ reply'.cause = "call")) =>
              /\ initialized'
              /\ reply'.connected = ~initialized
       /\ (reply' # reply /\ reply'.cause \in {"credentials", "connect"}) =>
              ~initialized /\ ~initialized']_vars

\* C27 witness: a call on the connected Fabric service has returned the
\* ledger's response without establishing a connection.
C27_Witness ==
    /\ svc = "fabric"
    /\ initialized
    /\ reply.outcome = "returned"
    /\ ~reply.connected
C29_GuardReleased ==
    [][\A t \in TaskIds :
          /\ (tasks[t].pc = "connecting" /\ tasks'[t].pc # "connecting") =>
                ~initLock'
          /\ (/\ CallsFabric(t)
              /\ tasks'[t].pc # "queued"
              /\ \A u \in TaskIds : tasks[u].pc # "connecting") =>
                /\ ~(/\ tasks'[t].pc = "done"
                     /\ tasks'[t].result = "refused"
                     /\ tasks'[t].obj.err = InProgressMsg)
                /\ (~initialized /\ CredFileSet \subseteq readable) =>
                      tasks'[t].pc = "connecting"
                /\ (~initialized /\ ~(CredFileSet \subseteq readable)) =>
                      /\ tasks'[t].obj.err = CredentialMsg
                      /\ ~initLock']_vars

\* C29 witness: one task's connection attempt failed, and a later task is
\* making an attempt of its own.
C29_Witness ==
    \E t, u \in TaskIds :
        /\ tasks[t].pc = "done"
        /\ tasks[t].obj.err = ConnectMsg
        /\ tasks[u].pc = "connecting"
C30_SessionClosed ==
    \A t \in TaskIds : tasks[t].pc = "done" => tasks[t].session = "closed"
====
